---------------------------- MODULE Spec2Model ----------------------------
(***************************************************************************)
(* A model of src/bary.py: the Sinkhorn divergence (sinkhorn, sinkhorn_mk), *)
(* its scaling iteration (_uv_iteration) and the gradient of the           *)
(* regularised divergence (Dsinkhorn_reg).                                 *)
(*                                                                         *)
(* Numbers are binary floating-point values m * 2^e, rounded to nearest    *)
(* (ties to even) after every operation, with the IEEE special values inf  *)
(* and nan.  The mantissa holds Precision bits (numpy's float64 holds 53); *)
(* the exponent is not bounded, so overflow and underflow of products are  *)
(* not modelled, only the underflow of exp to zero is.  Every input is     *)
(* nonnegative, so no negative number appears before the logarithm of the  *)
(* gradient, which is kept as a term log(u)/l.                             *)
(*                                                                         *)
(* An ndarray is a shape and its elements in row-major order; a local name *)
(* holds either an array of its own or a view of one of the caller's       *)
(* arrays (base), as numpy's reshape returns.                              *)
(***************************************************************************)
EXTENDS Integers, Sequences, FiniteSets, TLC

VARIABLES mem, mem0, frame

vars == <<mem, mem0, frame>>

---------------------------------------------------------------------------
(* Bounds of the model. *)

\* bits of mantissa kept by every floating-point operation
Precision == 12

\* largest iteration count passed explicitly
MaxT == 2

\* the default of the parameter iterations
DefaultIterations == 20

\* np.exp(-z) is exactly 0.0 from here on (float64 underflow)
ExpUnderflow == 746

---------------------------------------------------------------------------
(* Floating point. *)

RECURSIVE PowerOfTwo(_)
PowerOfTwo(k) == IF k = 0 THEN 1 ELSE 2 * PowerOfTwo(k - 1)

PowersOfTwo == [k \in 1..31 |-> PowerOfTwo(k - 1)] \o <<>>

\* 2^k for k in 0..30
Pow2(k) == PowersOfTwo[k + 1]

\* number of bits of m, 0 <= m < 2^30
BitLen(m) == CHOOSE k \in 0..30 : m < Pow2(k) /\ (k = 0 \/ Pow2(k - 1) <= m)

\* number of trailing zero bits of m, 0 < m < 2^30
TrailingZeros(m) == CHOOSE k \in 0..29 : m % Pow2(k) = 0 /\ m % Pow2(k + 1) # 0

Zero == [k |-> "num", m |-> 0, e |-> 0]
One == [k |-> "num", m |-> 1, e |-> 0]
Inf == [k |-> "inf", m |-> 0, e |-> 0]
NaN == [k |-> "nan", m |-> 0, e |-> 0]

\* m * 2^e with an odd mantissa: the one representation of the value
Canon(m, e) ==
    IF m = 0 THEN Zero
    ELSE LET z == TrailingZeros(m)
         IN [k |-> "num", m |-> m \div Pow2(z), e |-> e + z]

\* m * 2^e (plus a little when sticky) rounded to Precision bits, ties to even
Round(m, e, sticky) ==
    LET len == BitLen(m)
    IN IF len <= Precision THEN Canon(m, e)
       ELSE LET s == len - Precision
                q == m \div Pow2(s)
                rem == m % Pow2(s)
                half == Pow2(s - 1)
                up == rem > half \/ (rem = half /\ (sticky \/ q % 2 = 1))
            IN Canon(IF up THEN q + 1 ELSE q, e + s)

Lit(m, e) == Round(m, e, FALSE)

FMul(a, b) ==
    IF a.k = "nan" \/ b.k = "nan" THEN NaN
    ELSE IF a.k = "inf" \/ b.k = "inf"
         THEN IF (a.k = "num" /\ a.m = 0) \/ (b.k = "num" /\ b.m = 0) THEN NaN ELSE Inf
         ELSE Round(a.m * b.m, a.e + b.e, FALSE)

FAddNum(hi, lo) ==
    LET d == hi.e - lo.e
    IN IF BitLen(hi.m) + d <= 29
       THEN Round(hi.m * Pow2(d) + lo.m, lo.e, FALSE)
       ELSE hi

FAdd(a, b) ==
    IF a.k = "nan" \/ b.k = "nan" THEN NaN
    ELSE IF a.k = "inf" \/ b.k = "inf" THEN Inf
    ELSE IF a.m = 0 THEN b
    ELSE IF b.m = 0 THEN a
    ELSE IF a.e >= b.e THEN FAddNum(a, b) ELSE FAddNum(b, a)

\* np.reciprocal: 1/0 is inf and 1/inf is 0
Recip(a) ==
    IF a.k = "nan" THEN NaN
    ELSE IF a.k = "inf" THEN Zero
    ELSE IF a.m = 0 THEN Inf
    ELSE Round(Pow2(29) \div a.m, (-29) - a.e, Pow2(29) % a.m # 0)

\* np.exp(-z) for the integers z >= 0 the model uses, as float32 literals
ExpNeg(z) ==
    IF z >= ExpUnderflow THEN Zero
    ELSE CASE z = 0 -> One
           [] z = 1 -> Lit(12343986, -25)
           [] z = 10 -> Lit(12479438, -38)

IsPositive(a) == a.k = "inf" \/ (a.k = "num" /\ a.m > 0)
IsFinite(a) == a.k = "num"
IsNonNeg(a) == a.k # "nan"

---------------------------------------------------------------------------
(* ndarrays: a shape and the elements in row-major order. *)

\* the sequence F(1), ..., F(n), every element computed once
SeqOf(n, F(_)) == [idx \in 1..n |-> F(idx)] \o <<>>

Vec(elems) == [shape |-> <<Len(elems)>>, data |-> elems]

Mat(n, k, elems) == [shape |-> <<n, k>>, data |-> elems]

NDim(a) == Len(a.shape)

At(a, i, j) == a.data[(i - 1) * a.shape[2] + j]

\* the rows of an (n x k) array from an element function
Build(n, k, F(_, _)) ==
    Mat(n, k, SeqOf(n * k, LAMBDA idx : F(((idx - 1) \div k) + 1, ((idx - 1) % k) + 1)))

Full(n, k, a) == Build(n, k, LAMBDA i, j : a)

Ones(n, k) == Full(n, k, One)

Zeros(n, k) == Full(n, k, Zero)

Transpose(a) == Build(a.shape[2], a.shape[1], LAMBDA i, j : At(a, j, i))

ElemMul(a, b) == Build(a.shape[1], a.shape[2], LAMBDA i, j : FMul(At(a, i, j), At(b, i, j)))

Reciprocal(a) == [shape |-> a.shape, data |-> SeqOf(Len(a.data), LAMBDA idx : Recip(a.data[idx]))]

\* sum for t = 1..n of a[i, t] * b[t, j], accumulated from zero in index order
RECURSIVE Dot(_, _, _, _, _)
Dot(a, b, i, j, n) ==
    IF n = 0 THEN Zero
    ELSE FAdd(Dot(a, b, i, j, n - 1), FMul(At(a, i, n), At(b, n, j)))

MatMul(a, b) == Build(a.shape[1], b.shape[2], LAMBDA i, j : Dot(a, b, i, j, a.shape[2]))

Diag(v) == Build(Len(v.data), Len(v.data), LAMBDA i, j : IF i = j THEN v.data[i] ELSE Zero)

RECURSIVE ColumnSum(_, _, _)
ColumnSum(a, j, n) ==
    IF n = 0 THEN Zero ELSE FAdd(ColumnSum(a, j, n - 1), At(a, n, j))

RECURSIVE RowSum(_, _, _)
RowSum(a, i, n) ==
    IF n = 0 THEN Zero ELSE FAdd(RowSum(a, i, n - 1), At(a, i, n))

\* mutant: np.sum(a, axis = 1)
SumAxis1(a) == Vec(SeqOf(a.shape[1], LAMBDA i : RowSum(a, i, a.shape[2])))

\* np.sum(a, axis = 0)
SumAxis0(a) == Vec(SeqOf(a.shape[2], LAMBDA j : ColumnSum(a, j, a.shape[1])))

\* the indices a boolean mask selects, in increasing order
RECURSIVE Selected(_, _)
Selected(mask, n) ==
    IF n = 0 THEN <<>>
    ELSE IF mask[n] THEN Append(Selected(mask, n - 1), n) ELSE Selected(mask, n - 1)

\* mutant: r >= 0
NonNegativeMask(r) == SeqOf(Len(r.data), LAMBDA i : IsNonNeg(r.data[i]))

\* r > 0
PositiveMask(r) == SeqOf(Len(r.data), LAMBDA i : IsPositive(r.data[i]))

\* v[mask] of a one-dimensional array: a new array
TakeEntries(v, mask) ==
    LET sel == Selected(mask, Len(mask))
    IN Vec(SeqOf(Len(sel), LAMBDA t : v.data[sel[t]]))

\* a[mask, :] of a two-dimensional array: a new array
TakeRows(a, mask) ==
    LET sel == Selected(mask, Len(mask))
    IN Build(Len(sel), a.shape[2], LAMBDA t, j : At(a, sel[t], j))

\* np.reshape(c, (len(c), 1)): the same elements under a new shape
AsColumn(c) == [shape |-> <<Len(c.data), 1>>, data |-> c.data]

---------------------------------------------------------------------------
(* The computation of src/bary.py, statement by statement. *)

\* the integer an integer-valued float holds
IntOf(z) == z.m * Pow2(z.e)

\* mutant: lambda left out of the kernel
KernelNoLambda(M, l) ==
    [shape |-> M.shape, data |-> SeqOf(Len(M.data), LAMBDA idx : ExpNeg(IntOf(M.data[idx])))]

\* K = np.exp(-l*M)
KernelOf(M, l) ==
    [shape |-> M.shape, data |-> SeqOf(Len(M.data), LAMBDA idx : ExpNeg(IntOf(FMul(l, M.data[idx]))))]

\* mutant: x made one probability distribution over the whole table
XInitShared(r, c) ==
    Full(Len(r.data), c.shape[2], Recip(Canon(Len(r.data) * c.shape[2], 0)))

\* mutant: x = np.zeros((n,k))
XInitZeros(r, c) == Zeros(Len(r.data), c.shape[2])

\* x = np.ones((n,k)) with n = len(r) and k = np.shape(c)[1]
XInit(r, c) == Ones(Len(r.data), c.shape[2])

\* R = np.diag(np.reciprocal(r)) @ K
RMatrix(r, K) == MatMul(Diag(Reciprocal(r)), K)

\* c * np.reciprocal(np.transpose(K) @ y)
Scaled(c, K, y) == ElemMul(c, Reciprocal(MatMul(Transpose(K), y)))

\* x = R @ (c * np.reciprocal(np.transpose(K) @ np.reciprocal(x)))
Update(x, R, c, K) == MatMul(R, Scaled(c, K, Reciprocal(x)))

\* the values x takes: before the loop and after each of t passes
RECURSIVE Iterates(_, _, _, _)
Iterates(r, c, K, t) ==
    IF t = 0 THEN <<XInit(r, c)>>
    ELSE LET xs == Iterates(r, c, K, t - 1)
         IN Append(xs, Update(xs[Len(xs)], RMatrix(r, K), c, K))

\* x after t passes of the loop
XAfter(r, c, K, t) == Iterates(r, c, K, t)[t + 1]

\* mutant: the loop also stops once a pass leaves x as it was
RangeDoneOrStable(i, iterations, x, R, c, K) ==
    i >= iterations \/ (i > 0 /\ Update(x, R, c, K) = x)

\* for i in range(iterations): is the range used up after i passes
RangeDone(i, iterations, x, R, c, K) == i >= iterations

\* u = np.reciprocal(x)
ScalingU(x) == Reciprocal(x)

\* v = c * np.reciprocal(np.transpose(K) @ u)
ScalingV(c, K, u) == Scaled(c, K, u)

\* mutant: the distances not weighted by the kernel
ReadoutNoKernel(u, v, M, K) == SumAxis0(ElemMul(u, MatMul(M, v)))

\* np.sum(u * ((K * M) @ v), axis = 0)
Readout(u, v, M, K) == SumAxis0(ElemMul(u, MatMul(ElemMul(K, M), v)))

\* np.log(u) / l of one element
LogOver(u, l) ==
    IF u = One THEN Zero
    ELSE IF u.k = "nan" THEN NaN
    ELSE IF u.k = "inf" THEN Inf
    ELSE [k |-> "log", arg |-> u, l |-> l]

\* mutant: the rows counted after r was filtered
AlphaRowsKept(I, r) == Len(r.data)

\* the rows of alpha = np.zeros((len(I), k))
AlphaRows(I, r) == Len(I)

\* mutant: the rows of log(u)/l written to the leading rows of alpha
LeadingRow(I, t) == t

\* the row of alpha that row t of log(u)/l is assigned to by alpha[I,:] = ...
TargetRow(I, t) == Selected(I, Len(I))[t]

\* alpha = np.zeros((len(I), np.shape(c)[1])); alpha[I,:] = np.log(u) / l
Alpha(I, r, c, u, l) ==
    LET sel == Selected(I, Len(I))
        src(i) == CHOOSE t \in 1..Len(sel) : TargetRow(I, t) = i
    IN Build(AlphaRows(I, r), c.shape[2],
             LAMBDA i, j : IF \E t \in 1..Len(sel) : TargetRow(I, t) = i
                           THEN LogOver(At(u, src(i), j), l)
                           ELSE Zero)

\* I = r > 0; r = r[I]; M = M[I,:]; K = K[I,:]
ZeroFiltered(r, M, K) ==
    LET I == PositiveMask(r)
    IN [I |-> I, r |-> TakeEntries(r, I), M |-> TakeRows(M, I), K |-> TakeRows(K, I)]

\* if len(np.shape(c)) == 1: c = np.reshape(c,(len(c),1))
Reshaped(c) == IF NDim(c) = 1 THEN AsColumn(c) ELSE c

\* sinkhorn_mk(r,c,M,K,iterations)
SinkhornMk(r, c, M, K, iterations) ==
    LET f == ZeroFiltered(r, M, K)
        c2 == Reshaped(c)
        u == ScalingU(XAfter(f.r, c2, f.K, iterations))
    IN Readout(u, ScalingV(c2, f.K, u), f.M, f.K)

\* sinkhorn(r,c,M,l,iterations)
Sinkhorn(r, c, M, l, iterations) == SinkhornMk(r, c, M, KernelOf(M, l), iterations)

\* Dsinkhorn_reg(r,c,M,l,K,iterations)
DsinkhornReg(r, c, M, l, K, iterations) ==
    LET f == ZeroFiltered(r, M, K)
        c2 == Reshaped(c)
    IN Alpha(f.I, f.r, c2, ScalingU(XAfter(f.r, c2, f.K, iterations)), l)

---------------------------------------------------------------------------
(* The caller's arrays and the inputs explored. *)

Half == Canon(1, -1)
Quarter == Canon(1, -2)
ThreeQuarters == Canon(3, -2)

\* reference measures: balanced, with a zero first, last or in the middle, all zero
RInputs ==
    { Vec(<<Half, Half>>), Vec(<<One, Zero>>), Vec(<<Zero, One>>), Vec(<<Zero, Zero>>),
      Vec(<<Quarter, ThreeQuarters>>), Vec(<<Half, Zero, Half>>) }

\* target measures on two locations
Columns == { <<Half, Half>>, <<One, Zero>>, <<Zero, Zero>>, <<Quarter, ThreeQuarters>> }

\* batches of two measures: a[1] is the first column, a[2] the second
Batches ==
    { <<<<Half, Half>>, <<One, Zero>>>>, <<<<One, Zero>>, <<Quarter, ThreeQuarters>>>>,
      <<<<Quarter, ThreeQuarters>>, <<Half, Half>>>>, <<<<Half, Half>>, <<Zero, Zero>>>>,
      <<<<Zero, Zero>>, <<One, Zero>>>>, <<<<Half, Half>>, <<Half, Half>>>> }

\* a flat measure, an (m x 1) table, or an (m x 2) batch
CInputs ==
    { Vec(a) : a \in Columns } \cup { Mat(2, 1, a) : a \in { <<Half, Half>>, <<One, Zero>> } }
        \cup { Mat(2, 2, <<a[1][1], a[2][1], a[1][2], a[2][2]>>) : a \in Batches }

\* distance d between different locations, 0 on the diagonal
Dist(n, m, d) == Build(n, m, LAMBDA i, j : IF i = j THEN Zero ELSE d)

Distances == { One, Canon(1000, 0) }

Lambdas == { One, Canon(10, 0) }

\* iterations passed explicitly, or left to the default
IterationArgs == (0..MaxT) \cup {DefaultIterations}

\* what the caller holds: its arrays, with K precomputed from M and l
Caller(r, c, d, l, T) ==
    LET M == Dist(Len(r.data), c.shape[1], d)
    IN [r |-> r, c |-> c, M |-> M, K |-> KernelOf(M, l), l |-> l, iterations |-> T]

Inputs ==
    { Caller(r, c, d, l, T) :
        r \in RInputs, c \in CInputs, d \in Distances, l \in Lambdas, T \in IterationArgs }

\* two calls at once share one set of arrays
SharedInputs ==
    { Caller(r, c, One, One, T) :
        r \in { Vec(<<Half, Half>>), Vec(<<Zero, One>>) },
        c \in { Vec(<<One, Zero>>),
                Mat(2, 2, <<Half, Quarter, Half, ThreeQuarters>>) },
        T \in 0..1 }

---------------------------------------------------------------------------
(* Calls.  A frame holds the locals of one call. *)

Frames == {1, 2}

Entries == {"sinkhorn", "sinkhorn_mk", "Dsinkhorn_reg"}

NoArray == [shape |-> <<>>, data |-> <<>>]

\* a local name not bound yet
Unbound == [base |-> "", shape |-> <<>>, data |-> <<>>]

\* a parameter: the caller's array itself
Param(name) == [base |-> name, shape |-> mem[name].shape, data |-> <<>>]

\* a new array of the call's own
Own(a) == [base |-> "", shape |-> a.shape, data |-> a.data]

\* the array a local name stands for
Arr(h) == [shape |-> h.shape, data |-> IF h.base = "" THEN h.data ELSE mem[h.base].data]

Blank ==
    [pc |-> "idle", fn |-> "", l |-> Zero, iterations |-> 0, I |-> <<>>,
     r |-> Unbound, c |-> Unbound, M |-> Unbound, K |-> Unbound,
     x |-> NoArray, R |-> NoArray, i |-> 0, u |-> NoArray, v |-> NoArray, ret |-> NoArray]

Off == [Blank EXCEPT !.pc = "off"]

Init ==
    /\ mem \in Inputs
    /\ mem0 = mem
    /\ frame = [p \in Frames |-> IF p = 1 THEN Blank ELSE Off]

InitShared ==
    /\ mem \in SharedInputs
    /\ mem0 = mem
    /\ frame = [p \in Frames |-> Blank]

\* the caller enters one of the three functions with its arrays
Call(p) ==
    /\ frame[p].pc = "idle"
    /\ \E fn \in Entries :
        frame' = [frame EXCEPT ![p] =
                    [@ EXCEPT !.pc = IF fn = "sinkhorn" THEN "kernel" ELSE "filter",
                              !.fn = fn,
                              !.l = mem.l,
                              !.iterations = mem.iterations,
                              !.r = Param("r"),
                              !.c = Param("c"),
                              !.M = Param("M"),
                              !.K = IF fn = "sinkhorn" THEN Unbound ELSE Param("K")]]
    /\ UNCHANGED <<mem, mem0>>

\* sinkhorn: K = np.exp(-l*M), then sinkhorn_mk(r,c,M,K,iterations)
BuildKernel(p) ==
    /\ frame[p].pc = "kernel"
    /\ frame' = [frame EXCEPT ![p] =
                    [@ EXCEPT !.pc = "filter",
                              !.K = Own(KernelOf(Arr(frame[p].M), frame[p].l))]]
    /\ UNCHANGED <<mem, mem0>>

\* mutant: r is compressed in place, in the caller's array
FilterZerosInPlace(p) ==
    /\ frame[p].pc = "filter"
    /\ LET f == ZeroFiltered(Arr(frame[p].r), Arr(frame[p].M), Arr(frame[p].K))
       IN /\ frame' = [frame EXCEPT ![p] =
                          [@ EXCEPT !.pc = "reshape", !.I = f.I,
                                    !.r = [@ EXCEPT !.shape = f.r.shape],
                                    !.M = Own(f.M), !.K = Own(f.K)]]
          /\ mem' = [mem EXCEPT !.r = f.r]
    /\ UNCHANGED mem0

\* remove zeros in r: the three names are rebound to new arrays
FilterZeros(p) ==
    /\ frame[p].pc = "filter"
    /\ LET f == ZeroFiltered(Arr(frame[p].r), Arr(frame[p].M), Arr(frame[p].K))
       IN frame' = [frame EXCEPT ![p] =
                       [@ EXCEPT !.pc = "reshape", !.I = f.I,
                                 !.r = Own(f.r), !.M = Own(f.M), !.K = Own(f.K)]]
    /\ UNCHANGED <<mem, mem0>>

\* reshape c: a flat c becomes a view of the same elements with shape (m, 1)
ReshapeC(p) ==
    /\ frame[p].pc = "reshape"
    /\ frame' = [frame EXCEPT ![p] =
                    [@ EXCEPT !.pc = "setup",
                              !.c = [@ EXCEPT !.shape = Reshaped(Arr(frame[p].c)).shape]]]
    /\ UNCHANGED <<mem, mem0>>

\* _uv_iteration, setup: x and R
Setup(p) ==
    /\ frame[p].pc = "setup"
    /\ frame' = [frame EXCEPT ![p] =
                    [@ EXCEPT !.pc = "loop", !.i = 0,
                              !.x = XInit(Arr(frame[p].r), Arr(frame[p].c)),
                              !.R = RMatrix(Arr(frame[p].r), Arr(frame[p].K))]]
    /\ UNCHANGED <<mem, mem0>>

LoopDone(p) ==
    RangeDone(frame[p].i, frame[p].iterations, frame[p].x, frame[p].R,
              Arr(frame[p].c), Arr(frame[p].K))

\* one pass of the loop
Iterate(p) ==
    /\ frame[p].pc = "loop"
    /\ ~LoopDone(p)
    /\ frame' = [frame EXCEPT ![p] =
                    [@ EXCEPT !.i = @ + 1,
                              !.x = Update(frame[p].x, frame[p].R,
                                           Arr(frame[p].c), Arr(frame[p].K))]]
    /\ UNCHANGED <<mem, mem0>>

\* after the loop: u and v, returned to the caller of _uv_iteration
Reconstruct(p) ==
    /\ frame[p].pc = "loop"
    /\ LoopDone(p)
    /\ LET u == ScalingU(frame[p].x)
       IN frame' = [frame EXCEPT ![p] =
                       [@ EXCEPT !.pc = IF frame[p].fn = "Dsinkhorn_reg" THEN "alpha" ELSE "sum",
                                 !.u = u,
                                 !.v = ScalingV(Arr(frame[p].c), Arr(frame[p].K), u)]]
    /\ UNCHANGED <<mem, mem0>>

\* sinkhorn_mk returns the distance
Divergence(p) ==
    /\ frame[p].pc = "sum"
    /\ frame' = [frame EXCEPT ![p] =
                    [@ EXCEPT !.pc = "done",
                              !.ret = Readout(frame[p].u, frame[p].v,
                                              Arr(frame[p].M), Arr(frame[p].K))]]
    /\ UNCHANGED <<mem, mem0>>

\* Dsinkhorn_reg returns alpha
Gradient(p) ==
    /\ frame[p].pc = "alpha"
    /\ frame' = [frame EXCEPT ![p] =
                    [@ EXCEPT !.pc = "done",
                              !.ret = Alpha(frame[p].I, Arr(frame[p].r), Arr(frame[p].c),
                                            frame[p].u, frame[p].l)]]
    /\ UNCHANGED <<mem, mem0>>

Next ==
    \E p \in Frames :
        \/ Call(p)
        \/ BuildKernel(p)
        \/ FilterZeros(p)
        \/ ReshapeC(p)
        \/ Setup(p)
        \/ Iterate(p)
        \/ Reconstruct(p)
        \/ Divergence(p)
        \/ Gradient(p)

Spec == Init /\ [][Next]_vars

SpecShared == InitShared /\ [][Next]_vars

---------------------------------------------------------------------------
(* What the claims speak of. *)

Done(p) == frame[p].pc = "done"

AfterLoop(p) == frame[p].pc \in {"sum", "alpha", "done"}

InIteration(p) == frame[p].pc = "loop" \/ AfterLoop(p)

IsDivergence(p) == frame[p].fn \in {"sinkhorn", "sinkhorn_mk"}

IsGradient(p) == frame[p].fn = "Dsinkhorn_reg"

\* n and k of the call: the length of the caller's r, the number of target measures
CallerN == Len(mem0.r.data)
CallerK == IF NDim(mem0.c) = 1 THEN 1 ELSE mem0.c.shape[2]
CallerM == mem0.c.shape[1]

\* the caller's c as an (m x k) table, and its column j as an (m x 1) table
CallerTable == [shape |-> <<CallerM, CallerK>>, data |-> mem0.c.data]
ColumnOf(c, j) == Mat(c.shape[1], 1, SeqOf(c.shape[1], LAMBDA i : At(c, i, j)))

\* exp(-lambda * M), element by element
ElementwiseExp(M, l) ==
    [shape |-> M.shape, data |-> SeqOf(Len(M.data), LAMBDA idx : ExpNeg(IntOf(FMul(l, M.data[idx]))))]

\* the kernel a call of p works with, before filtering
KernelUsed(p) == IF frame[p].fn = "sinkhorn" THEN ElementwiseExp(mem0.M, mem0.l) ELSE mem0.K

\* the positive entries of the caller's r and the rows of M and K they select
PositiveIndices == { i \in 1..CallerN : IsPositive(mem0.r.data[i]) }
RankOf(i) == Cardinality({ t \in PositiveIndices : t <= i })
KeptR == Vec(SeqOf(Cardinality(PositiveIndices),
                   LAMBDA t : mem0.r.data[CHOOSE i \in PositiveIndices : RankOf(i) = t]))
KeptRows(a) ==
    Build(Cardinality(PositiveIndices), a.shape[2],
          LAMBDA t, j : At(a, CHOOSE i \in PositiveIndices : RankOf(i) = t, j))

AllEntries(a, P(_)) == \A idx \in 1..Len(a.data) : P(a.data[idx])

PositiveFinite(a) == a.k = "num" /\ a.m > 0
NonNegFinite(a) == a.k = "num"

\* every column of the caller's c holds a strictly positive entry
ColumnsCarryMass == \A j \in 1..CallerK : \E i \in 1..CallerM : IsPositive(At(CallerTable, i, j))

\* a finite value that is at most 1/1000
AtMostThousandth(a) ==
    /\ a.k = "num"
    /\ \/ a.m = 0
       \/ a.e < 0 /\ (-a.e > 30 \/ 1000 * a.m <= Pow2(-a.e))

\* the inputs of the two scenarios, but for c
ScenarioSetup(p) ==
    /\ frame[p].fn = "sinkhorn"
    /\ mem0.r = Vec(<<Half, Half>>)
    /\ mem0.M = Mat(2, 2, <<Zero, One, One, Zero>>)
    /\ mem0.l = Canon(10, 0)
    /\ mem0.iterations = 20

---------------------------------------------------------------------------
(* C1: sinkhorn and sinkhorn_mk return exactly k values, and Dsinkhorn_reg  *)
(* returns a table of n rows and k columns, n being the length of r before  *)
(* the zero entries are filtered out, however many entries of r are zero.   *)
C1_Shapes ==
    \A p \in Frames :
        Done(p) =>
            IF IsDivergence(p)
            THEN frame[p].ret.shape = <<CallerK>> /\ Len(frame[p].ret.data) = CallerK
            ELSE /\ frame[p].ret.shape = <<CallerN, CallerK>>
                 /\ Len(frame[p].ret.data) = CallerN * CallerK

\* a gradient of a batch of two whose r lost one of its three entries
C1_Witness ==
    /\ Done(1) /\ IsGradient(1)
    /\ CallerN = 3 /\ CallerK = 2
    /\ Len(Arr(frame[1].r).data) = 2
    /\ frame[1].ret.shape = <<3, 2>>

(* C2: in the table Dsinkhorn_reg returns, row i is zero in every column    *)
(* when r[i] is zero, and otherwise holds log(u)/lambda of the row of u     *)
(* that r[i] became, the rows keeping the order of r.                       *)
C2_ZeroFill ==
    \A p \in Frames :
        (Done(p) /\ IsGradient(p)) =>
            /\ Len(frame[p].ret.data) = CallerN * CallerK
            /\ \A i \in 1..CallerN : \A j \in 1..CallerK :
                  At(frame[p].ret, i, j) =
                      IF i \in PositiveIndices
                      THEN LogOver(At(frame[p].u, RankOf(i), j), mem0.l)
                      ELSE Zero

\* a zero row between two rows that hold logarithms
C2_Witness ==
    /\ Done(1) /\ IsGradient(1)
    /\ mem0.r = Vec(<<Half, Zero, Half>>)
    /\ At(frame[1].ret, 1, 1).k = "log"
    /\ At(frame[1].ret, 2, 1) = Zero
    /\ At(frame[1].ret, 3, 1).k = "log"
    /\ At(frame[1].ret, 1, 1) # At(frame[1].ret, 3, 1)

(* C3: batching changes no column: while a call works on a batch c, column  *)
(* j of x, of u and of v is what the iteration makes of column j of c       *)
(* alone, and entry j of the divergence is entry 0 of the divergence of     *)
(* column j given as an (m x 1) table.                                      *)
C3_BatchIndependence ==
    \A p \in Frames :
        (InIteration(p) /\ CallerK >= 2) =>
            \A j \in 1..CallerK :
                LET cj == ColumnOf(CallerTable, j)
                    K == KeptRows(KernelUsed(p))
                    x == frame[p].x
                IN \* one more pass keeps the columns apart
                   /\ frame[p].pc = "loop" =>
                        /\ frame[p].i = 0 => ColumnOf(x, j) = XInit(KeptR, cj)
                        /\ ColumnOf(Update(x, frame[p].R, CallerTable, K), j)
                             = Update(ColumnOf(x, j), frame[p].R, cj, K)
                   \* the loop left: x, u and v are those of column j alone
                   /\ frame[p].pc \in {"sum", "alpha"} =>
                        LET xj == XAfter(KeptR, cj, K, frame[p].i)
                        IN /\ ColumnOf(x, j) = xj
                           /\ ColumnOf(frame[p].u, j) = ScalingU(xj)
                           /\ ColumnOf(frame[p].v, j) = ScalingV(cj, K, ScalingU(xj))
                   /\ (Done(p) /\ IsDivergence(p)) =>
                        /\ Len(frame[p].ret.data) = CallerK
                        /\ frame[p].ret.data[j] =
                             IF frame[p].fn = "sinkhorn"
                             THEN Sinkhorn(mem0.r, cj, mem0.M, mem0.l, mem0.iterations).data[1]
                             ELSE SinkhornMk(mem0.r, cj, mem0.M, mem0.K, mem0.iterations).data[1]

\* a batch of two different measures whose divergences differ
C3_Witness ==
    /\ Done(1) /\ frame[1].fn = "sinkhorn"
    /\ CallerK = 2
    /\ frame[1].iterations = 2
    /\ ColumnOf(CallerTable, 1) # ColumnOf(CallerTable, 2)
    /\ frame[1].ret.data[1] # frame[1].ret.data[2]
    /\ AllEntries(frame[1].ret, PositiveFinite)

(* C4: sinkhorn(r, c, M, lambda, T) returns what sinkhorn_mk(r, c, M, K, T) *)
(* returns for the kernel K = exp(-lambda * M) taken element by element.    *)
C4_KernelConsistency ==
    \A p \in Frames :
        (Done(p) /\ frame[p].fn = "sinkhorn") =>
            frame[p].ret =
                SinkhornMk(mem0.r, mem0.c, mem0.M, ElementwiseExp(mem0.M, mem0.l),
                           mem0.iterations)

\* sinkhorn has returned a positive divergence for lambda = 10
C4_Witness ==
    /\ Done(1) /\ frame[1].fn = "sinkhorn"
    /\ mem0.l = Canon(10, 0)
    /\ mem0.iterations = 1
    /\ AllEntries(frame[1].ret, PositiveFinite)

(* C5, as claimed: for nonnegative r, c and M and positive lambda every     *)
(* value sinkhorn and sinkhorn_mk return is >= 0.                           *)
C5_NonNegative ==
    \A p \in Frames :
        (Done(p) /\ IsDivergence(p)) => AllEntries(frame[p].ret, IsNonNeg)

(* C5, amended: the same when moreover every entry of the kernel is         *)
(* strictly positive and every column of c holds a strictly positive entry. *)
C5_NonNegativeWithMass ==
    \A p \in Frames :
        (/\ Done(p) /\ IsDivergence(p)
         /\ AllEntries(KernelUsed(p), IsPositive)
         /\ ColumnsCarryMass) => AllEntries(frame[p].ret, IsNonNeg)

\* a divergence of a batch, under these conditions, with a zero entry in r
C5_Witness ==
    /\ Done(1) /\ frame[1].fn = "sinkhorn_mk"
    /\ AllEntries(KernelUsed(1), IsPositive)
    /\ ColumnsCarryMass
    /\ CallerK = 2
    /\ mem0.r = Vec(<<Zero, One>>)
    /\ frame[1].iterations = 20
    /\ AllEntries(frame[1].ret, PositiveFinite)

(* C6: for r = [0.5, 0.5], the flat c = [0.5, 0.5], M = [[0, 1], [1, 0]],   *)
(* lambda = 10 and T = 20, sinkhorn returns one value within 1e-3 of zero.  *)
C6_SelfDistance ==
    \A p \in Frames :
        (Done(p) /\ ScenarioSetup(p) /\ mem0.c = Vec(<<Half, Half>>)) =>
            /\ frame[p].ret.shape = <<1>>
            /\ AllEntries(frame[p].ret, AtMostThousandth)

C6_Witness ==
    /\ Done(1) /\ ScenarioSetup(1) /\ mem0.c = Vec(<<Half, Half>>)
    /\ frame[1].i = 20
    /\ Len(frame[1].ret.data) = 1

(* C7: for the same r, M, lambda and T and the flat c = [1.0, 0.0],         *)
(* sinkhorn returns a strictly positive value.                              *)
C7_MassMoves ==
    \A p \in Frames :
        (Done(p) /\ ScenarioSetup(p) /\ mem0.c = Vec(<<One, Zero>>)) =>
            /\ frame[p].ret.shape = <<1>>
            /\ AllEntries(frame[p].ret, PositiveFinite)

C7_Witness ==
    /\ Done(1) /\ ScenarioSetup(1) /\ mem0.c = Vec(<<One, Zero>>)
    /\ frame[1].i = 20
    /\ Len(frame[1].ret.data) = 1
    /\ ~AtMostThousandth(frame[1].ret.data[1])

(* C8: a call changes none of the caller's r, c, M and K: filtering binds   *)
(* r, M and K to new arrays and the reshaped c is a view of the caller's    *)
(* elements that is never written; so each of two calls that share the      *)
(* arrays, run one after the other or interleaved, returns what it returns  *)
(* alone.                                                                   *)
AloneResult(fn) ==
    CASE fn = "sinkhorn" -> Sinkhorn(mem0.r, mem0.c, mem0.M, mem0.l, mem0.iterations)
      [] fn = "sinkhorn_mk" -> SinkhornMk(mem0.r, mem0.c, mem0.M, mem0.K, mem0.iterations)
      [] fn = "Dsinkhorn_reg" ->
            DsinkhornReg(mem0.r, mem0.c, mem0.M, mem0.l, mem0.K, mem0.iterations)

C8_PureCalls ==
    /\ mem = mem0
    /\ \A p \in Frames :
          /\ InIteration(p) \/ frame[p].pc \in {"reshape", "setup"} =>
                /\ frame[p].r.base = "" /\ frame[p].M.base = "" /\ frame[p].K.base = ""
                /\ frame[p].c.base = "c"
          /\ Done(p) => frame[p].ret = AloneResult(frame[p].fn)

\* two calls of different functions are done on an r with a zero and a flat c
C8_Witness ==
    /\ Done(1) /\ frame[1].fn = "sinkhorn_mk"
    /\ Done(2) /\ frame[2].fn = "Dsinkhorn_reg"
    /\ mem0.r = Vec(<<Zero, One>>)
    /\ NDim(mem0.c) = 1
    /\ frame[1].c.shape = <<2, 1>>
    /\ frame[1].iterations = 1

(* C9: the loop of _uv_iteration makes exactly T passes from x = ones,      *)
(* never fewer because a pass left x as it was and never more; for T = 0    *)
(* u is all ones and v = c * 1/(K^T.u).                                     *)
C9_ExactlyT ==
    \A p \in Frames :
        LET f == frame[p]
        IN /\ f.pc = "loop" => f.i <= f.iterations
           /\ AfterLoop(p) =>
                /\ f.i = f.iterations
                /\ f.iterations = mem0.iterations
                /\ f.pc # "done" =>
                      f.x = XAfter(Arr(f.r), Arr(f.c), Arr(f.K), f.iterations)
                /\ f.iterations = 0 =>
                      /\ f.u = Ones(Len(Arr(f.r).data), CallerK)
                      /\ f.v = Scaled(Arr(f.c), Arr(f.K), f.u)

\* all 20 passes were made although a pass no longer changes x
C9_Witness ==
    /\ Done(1)
    /\ frame[1].i = 20
    /\ Len(frame[1].x.data) > 0
    /\ Update(frame[1].x, frame[1].R, Arr(frame[1].c), Arr(frame[1].K)) = frame[1].x

=============================================================================
